---------------------------- MODULE Spec2Model ----------------------------
(***************************************************************************)
(* Model of update_feed.js: the one-shot export of a Square catalog and    *)
(* its inventory counts into the pipe-delimited Wine-Searcher feed file.   *)
(*                                                                         *)
(* A JavaScript string is a sequence of one-character strings, so that     *)
(* trimming, lower-casing, searching, percent-encoding, joining and        *)
(* splitting are computed character by character.  An optional value       *)
(* (undefined or a value) is a sequence of length 0 or 1.                  *)
(***************************************************************************)
EXTENDS Integers, Sequences, FiniteSets, TLC

VARIABLES
    pc,           \* position of the run: start, await_catalog, await_inventory, done, failed
    TOKEN,        \* process.env.SQUARE_ACCESS_TOKEN, optional
    LOCATION_ID,  \* process.env.SQUARE_LOCATION_ID, optional
    events,       \* the observable events of the run, in order
    catOutcome,   \* outcome of the catalog search call, "none" before it returns
    invOutcome,   \* outcome of the inventory batch call, "none" before it returns
    cat,          \* the parsed catalog response, optional
    usable,       \* the usable rows built from the catalog
    invRequest,   \* body of the inventory request, optional
    inv,          \* the parsed inventory response, optional
    rows,         \* the field arrays of the data rows, before they are joined
    lines,        \* the lines array handed to the file write
    file,         \* content of winesearcher-feed.txt on disk, optional
    exitCode,     \* exit status of the process, optional
    name,         \* input of the field derivers (guessVintage, guessUnitSize)
    vintage,      \* optional result of guessVintage(name)
    unitSize      \* optional result of guessUnitSize(name)

(***************************************************************************)
(* Optional values                                                         *)
(***************************************************************************)
None == <<>>
Some(x) == <<x>>

(***************************************************************************)
(* Characters and strings                                                  *)
(***************************************************************************)
UpperLetters == <<"A", "B", "C", "D", "E", "F", "G", "H", "I", "J", "K", "L", "M", "N", "O", "P",
       "Q", "R", "S", "T", "U", "V", "W", "X", "Y", "Z">>
LowerLetters == <<"a", "b", "c", "d", "e", "f", "g", "h", "i", "j", "k", "l", "m", "n", "o", "p",
       "q", "r", "s", "t", "u", "v", "w", "x", "y", "z">>
DigitChars == <<"0", "1", "2", "3", "4", "5", "6", "7", "8", "9">>

Range(s) == {s[i] : i \in 1..Len(s)}

Digits == Range(DigitChars)

IsDigit(c) == c \in Digits

\* \w of a JavaScript regular expression: [A-Za-z0-9_]
WordChars == Range(UpperLetters) \cup Range(LowerLetters) \cup Range(DigitChars) \cup {"_"}

IsWordChar(c) == c \in WordChars

\* the white space String.prototype.trim() strips (the ASCII part of it)
WhiteSpace == {" ", "\t", "\n", "\r"}

IsWhiteSpace(c) == c \in WhiteSpace

\* String.prototype.toLowerCase() on one ASCII character
LowerOfUpper == [c \in Range(UpperLetters) |->
                    LowerLetters[CHOOSE i \in 1..26 : UpperLetters[i] = c]]

LowerChar(c) == IF c \in DOMAIN LowerOfUpper THEN LowerOfUpper[c] ELSE c

toLowerCase(s) == [i \in 1..Len(s) |-> LowerChar(s[i])]

\* String.prototype.includes(sub)
includes(s, sub) ==
    \E i \in 1..(Len(s) - Len(sub) + 1) : SubSeq(s, i, i + Len(sub) - 1) = sub

RECURSIVE trimStart(_)
trimStart(s) ==
    IF s # <<>> /\ IsWhiteSpace(Head(s)) THEN trimStart(Tail(s)) ELSE s

RECURSIVE trimEnd(_)
trimEnd(s) ==
    IF s # <<>> /\ IsWhiteSpace(s[Len(s)]) THEN trimEnd(SubSeq(s, 1, Len(s) - 1)) ELSE s

\* String.prototype.trim()
trim(s) == trimEnd(trimStart(s))

(***************************************************************************)
(* guessVintage: name.match(/\b(18|19|20)\d{2}\b/), first match or "NV"    *)
(***************************************************************************)
NV == <<"N", "V">>

\* \b holds between positions i-1 and i when exactly one side is a word character
WordBoundary(s, i) ==
    LET before == i > 1 /\ i - 1 <= Len(s) /\ IsWordChar(s[i - 1])
        after  == i >= 1 /\ i <= Len(s) /\ IsWordChar(s[i])
    IN  before # after

CenturyPrefixes == {<<"1", "8">>, <<"1", "9">>, <<"2", "0">>}

\* faulty variant of VintageMatchAt: the pattern without its two \b anchors
VintageMatchAtNoBoundary(s, i) ==
    /\ i + 3 <= Len(s)
    /\ SubSeq(s, i, i + 1) \in CenturyPrefixes
    /\ IsDigit(s[i + 2])
    /\ IsDigit(s[i + 3])

\* the regular expression matches the four characters starting at position i
VintageMatchAt(s, i) ==
    /\ i + 3 <= Len(s)
    /\ WordBoundary(s, i)
    /\ SubSeq(s, i, i + 1) \in CenturyPrefixes
    /\ IsDigit(s[i + 2])
    /\ IsDigit(s[i + 3])
    /\ WordBoundary(s, i + 4)

\* the regular expression engine tries the start positions from left to right
RECURSIVE VintageScan(_, _)
VintageScan(s, i) ==
    IF i + 3 > Len(s) THEN NV
    ELSE IF VintageMatchAt(s, i) THEN SubSeq(s, i, i + 3)
    ELSE VintageScan(s, i + 1)

guessVintage(n) == VintageScan(n, 1)

(***************************************************************************)
(* guessUnitSize: first matching rule on the lower-cased name              *)
(***************************************************************************)
SizeMagnum == <<"1", ".", "5", "L", " ", "M", "a", "g", "n", "u", "m">>
Size375 == <<"3", "7", "5", "m", "l">>
Size500 == <<"5", "0", "0", "m", "l">>
Size1L == <<"1", "L">>
Size3L == <<"3", "L">>
Size750 == <<"7", "5", "0", "m", "l">>

SizeLabels == {SizeMagnum, Size375, Size500, Size1L, Size3L, Size750}

\* faulty variant of guessUnitSize: the name is not lower-cased
guessUnitSizeNoLowerCase(nm) ==
    LET n == nm
    IN  IF includes(n, <<"m", "a", "g", "n", "u", "m">>) \/ includes(n, <<"1", ".", "5", "l">>) \/ includes(n, <<"1", "5", "0", "0">>) THEN SizeMagnum
        ELSE IF includes(n, <<"3", "7", "5">>) THEN Size375
        ELSE IF includes(n, <<"5", "0", "0">>) THEN Size500
        ELSE IF includes(n, <<"1", "l">>) \/ includes(n, <<"1", "0", "0", "0">>) THEN Size1L
        ELSE IF includes(n, <<"3", "l">>) THEN Size3L
        ELSE Size750

guessUnitSize(nm) ==
    LET n == toLowerCase(nm)
    IN  IF includes(n, <<"m", "a", "g", "n", "u", "m">>) \/ includes(n, <<"1", ".", "5", "l">>) \/ includes(n, <<"1", "5", "0", "0">>) THEN SizeMagnum
        ELSE IF includes(n, <<"3", "7", "5">>) THEN Size375
        ELSE IF includes(n, <<"5", "0", "0">>) THEN Size500
        ELSE IF includes(n, <<"1", "l">>) \/ includes(n, <<"1", "0", "0", "0">>) THEN Size1L
        ELSE IF includes(n, <<"3", "l">>) THEN Size3L
        ELSE Size750

(***************************************************************************)
(* Number and string conversions                                           *)
(***************************************************************************)
RECURSIVE NatToString(_)
NatToString(n) ==
    IF n < 10 THEN <<DigitChars[n + 1]>>
    ELSE NatToString(n \div 10) \o <<DigitChars[(n % 10) + 1]>>

\* faulty variant of centsToDollars: the fraction digits are dropped
centsToDollarsTruncated(cents) ==
    LET c == IF cents = None THEN 0 ELSE cents[1]
        a == IF c < 0 THEN 0 - c ELSE c
    IN  (IF c < 0 THEN <<"-">> ELSE <<>>) \o NatToString(a \div 100)

\* (Number(cents || 0) / 100).toFixed(2) for an optional integer amount
centsToDollars(cents) ==
    LET c == IF cents = None THEN 0 ELSE cents[1]
        a == IF c < 0 THEN 0 - c ELSE c
    IN  (IF c < 0 THEN <<"-">> ELSE <<>>)
            \o NatToString(a \div 100) \o <<".">> \o <<DigitChars[((a \div 10) % 10) + 1]>>
            \o <<DigitChars[(a % 10) + 1]>>

AllDigits(s) == \A i \in 1..Len(s) : IsDigit(s[i])

RECURSIVE StripLeadingZeros(_)
StripLeadingZeros(s) ==
    IF s # <<>> /\ Head(s) = "0" THEN StripLeadingZeros(Tail(s)) ELSE s

RECURSIVE StripTrailingZeros(_)
StripTrailingZeros(s) ==
    IF s # <<>> /\ s[Len(s)] = "0" THEN StripTrailingZeros(SubSeq(s, 1, Len(s) - 1)) ELSE s

\* String(Number(s)) for a string s: white space is trimmed, the empty string is
\* 0, a signed decimal literal is rendered in its shortest form (no leading or
\* trailing zeros, no sign on zero), anything else is NaN
StringOfNumber(s) ==
    LET t        == trim(s)
        signed   == t # <<>> /\ Head(t) \in {"-", "+"}
        negative == t # <<>> /\ Head(t) = "-"
        body     == IF signed THEN Tail(t) ELSE t
        dots     == {i \in 1..Len(body) : body[i] = "."}
        dot      == IF dots = {} THEN Len(body) + 1 ELSE CHOOSE i \in dots : \A j \in dots : i <= j
        intPart  == SubSeq(body, 1, dot - 1)
        fracPart == SubSeq(body, dot + 1, Len(body))
        int      == StripLeadingZeros(intPart)
        frac     == StripTrailingZeros(fracPart)
    IN  IF t = <<>> THEN <<"0">>
        ELSE IF ~(AllDigits(intPart) /\ AllDigits(fracPart) /\ Len(intPart) + Len(fracPart) > 0)
        THEN <<"N", "a", "N">>
        ELSE IF int = <<>> /\ frac = <<>> THEN <<"0">>
        ELSE (IF negative THEN <<"-">> ELSE <<>>)
                 \o (IF int = <<>> THEN <<"0">> ELSE int)
                 \o (IF frac = <<>> THEN <<>> ELSE <<".">> \o frac)

\* String(Number(c.quantity || 0)) for an optional string quantity
quantityToStock(quantity) ==
    IF quantity = None \/ quantity[1] = <<>> THEN <<"0">> ELSE StringOfNumber(quantity[1])

\* the printable ASCII characters of code 32 to 95, and of code 97 to 126, in
\* code order (code 96, the grave accent, is left out)
AsciiLow == <<" ", "!", "\"", "#", "$", "%", "&", "'", "(", ")", "*", "+", ",", "-", ".", "/",
       "0", "1", "2", "3", "4", "5", "6", "7", "8", "9", ":", ";", "<", "=", ">", "?",
       "@", "A", "B", "C", "D", "E", "F", "G", "H", "I", "J", "K", "L", "M", "N", "O",
       "P", "Q", "R", "S", "T", "U", "V", "W", "X", "Y", "Z", "[", "\\", "]", "^", "_">>
AsciiHigh == <<"a", "b", "c", "d", "e", "f", "g", "h", "i", "j", "k", "l", "m", "n", "o", "p",
       "q", "r", "s", "t", "u", "v", "w", "x", "y", "z", "{", "|", "}", "~">>

HexDigits == <<"0", "1", "2", "3", "4", "5", "6", "7", "8", "9", "A", "B", "C", "D", "E", "F">>

CharCode(c) ==
    IF c = "\t" THEN 9
    ELSE IF c = "\n" THEN 10
    ELSE IF c = "\r" THEN 13
    ELSE IF c \in Range(AsciiLow) THEN 31 + (CHOOSE i \in 1..Len(AsciiLow) : AsciiLow[i] = c)
    ELSE 96 + (CHOOSE i \in 1..Len(AsciiHigh) : AsciiHigh[i] = c)

\* the characters encodeURIComponent leaves as they are
Unreserved ==
    Range(UpperLetters) \cup Range(LowerLetters) \cup Range(DigitChars)
        \cup {"-", "_", ".", "!", "~", "*", "'", "(", ")"}

IsUnreserved(c) == c \in Unreserved

PercentEncodeChar(c) ==
    IF IsUnreserved(c) THEN <<c>>
    ELSE <<"%", HexDigits[(CharCode(c) \div 16) + 1], HexDigits[(CharCode(c) % 16) + 1]>>

RECURSIVE encodeURIComponent(_)
encodeURIComponent(s) ==
    IF s = <<>> THEN <<>> ELSE PercentEncodeChar(Head(s)) \o encodeURIComponent(Tail(s))

\* String.prototype.replace with a global pattern of fixed text
RECURSIVE replaceAll(_, _, _)
replaceAll(s, from, to) ==
    IF Len(s) < Len(from) THEN s
    ELSE IF SubSeq(s, 1, Len(from)) = from
    THEN to \o replaceAll(SubSeq(s, Len(from) + 1, Len(s)), from, to)
    ELSE <<Head(s)>> \o replaceAll(Tail(s), from, to)

encodeQuery(q) == replaceAll(encodeURIComponent(q), <<"%", "2", "0">>, <<"%", "2", "0">>)

\* Array.prototype.join
RECURSIVE join(_, _)
join(ss, sep) ==
    IF ss = <<>> THEN <<>>
    ELSE IF Len(ss) = 1 THEN ss[1]
    ELSE ss[1] \o sep \o join(Tail(ss), sep)

(***************************************************************************)
(* The pipeline of main()                                                  *)
(***************************************************************************)
TAX == <<"I", "n", "c", ".", "t", "a", "x">>
OFFER == <<"R">>
DELIVERY == <<"N", "e", "x", "t", " ", "d", "a", "y">>
SHOP_SEARCH_BASE == <<"h", "t", "t", "p", "s", ":", "/", "/", "w", "w", "w", ".", "m", "a", "g", "a",
       "z", "z", "i", "n", "o", "n", "y", "c", ".", "c", "o", "m", "/", "s", "/", "s",
       "h", "o", "p", "?", "q", "u", "e", "r", "y", "=">>
header ==
    <<"S", "K", "U", "|", "n", "a", "m", "e", "|", "d", "e", "s", "c", "r", "i", "p",
       "t", "i", "o", "n", "|", "v", "i", "n", "t", "a", "g", "e", "|", "u", "n", "i",
       "t", "-", "s", "i", "z", "e", "|", "p", "r", "i", "c", "e", "|", "s", "t", "o",
       "c", "k", "|", "u", "r", "l", "|", "m", "i", "n", "-", "o", "r", "d", "e", "r",
       "|", "t", "a", "x", "|", "o", "f", "f", "e", "r", "-", "t", "y", "p", "e", "|",
       "d", "e", "l", "i", "v", "e", "r", "y", "-", "t", "i", "m", "e", "|", "L", "W",
       "I", "N", "|", "i", "m", "a", "g", "e", "u", "r", "l">>

\* faulty variant of CredentialsMissing: && in place of ||
CredentialsMissingBoth(token, location) ==
    (token = None \/ token[1] = "") /\ (location = None \/ location[1] = "")

\* !TOKEN || !LOCATION_ID: an absent or empty credential is missing
CredentialsMissing(token, location) ==
    (token = None \/ token[1] = "") \/ (location = None \/ location[1] = "")

\* squareFetch throws when fetch rejects, when the status is not a success,
\* and when the body is not JSON
FetchOutcomes == {"ok", "http_error", "network_error", "invalid_json"}

\* faulty variant of squareFetchThrows: res.ok is not looked at
squareFetchThrowsUnchecked(outcome) == outcome \in {"network_error", "invalid_json"}

squareFetchThrows(outcome) == outcome # "ok"

\* x || [] and x || "" for an optional sequence
OrEmpty(opt) == IF opt = None THEN <<>> ELSE opt[1]

\* Map.prototype.set and Map.prototype.get
mapSet(map, key, value) ==
    [k \in DOMAIN map \cup {key} |-> IF k = key THEN value ELSE map[k]]

mapGet(map, key) == IF key \in DOMAIN map THEN Some(map[key]) ELSE None

\* the loop over related objects: item id -> item name
RECURSIVE buildItemNameById(_, _)
buildItemNameById(related, map) ==
    IF related = <<>> THEN map
    ELSE LET obj == Head(related)
         IN  buildItemNameById(Tail(related),
                 IF obj.type = "ITEM" THEN mapSet(map, obj.id, OrEmpty(obj.name)) ELSE map)

\* faulty variant of fullName: no trim
fullNameUntrimmed(itemName, varName) ==
    IF varName # <<>> /\ toLowerCase(varName) # <<"r", "e", "g", "u", "l", "a", "r">>
    THEN itemName \o <<" ">> \o varName
    ELSE itemName

\* the composed display name of a variation
fullName(itemName, varName) ==
    IF varName # <<>> /\ toLowerCase(varName) # <<"r", "e", "g", "u", "l", "a", "r">>
    THEN trim(itemName \o <<" ">> \o varName)
    ELSE trim(itemName)

\* faulty variant of skuMissing: an empty SKU is kept
skuMissingOnlyAbsent(sku) == sku = None

\* !sku
skuMissing(sku) == sku = None \/ sku[1] = <<>>

\* the usable row pushed for a variation that has a SKU.  The fields of
\* item_variation_data are read with ?. : a variation without that object is
\* a variation all of whose optional fields are absent.
usableRow(v, itemNameById) ==
    LET sku      == v.sku[1]
        itemName == OrEmpty(mapGet(itemNameById, v.item_id))
        varName  == OrEmpty(v.name)
        full     == fullName(itemName, varName)
    IN  [sku |-> sku,
         name |-> IF full # <<>> THEN full ELSE sku,
         variationId |-> v.id,
         price |-> centsToDollars(v.amount)]

\* the loop over the variations
RECURSIVE buildUsable(_, _)
buildUsable(variations, itemNameById) ==
    IF variations = <<>> THEN <<>>
    ELSE IF skuMissing(Head(variations).sku) THEN buildUsable(Tail(variations), itemNameById)
    ELSE <<usableRow(Head(variations), itemNameById)>>
             \o buildUsable(Tail(variations), itemNameById)

\* the body of the inventory request
inventoryRequest(rowsUsable, location) ==
    [catalog_object_ids |-> [i \in 1..Len(rowsUsable) |-> rowsUsable[i].variationId],
     location_ids |-> <<location>>,
     states |-> <<"IN_STOCK">>]

\* faulty variant of buildStockByVarId: the first count of an identifier is kept
RECURSIVE buildStockByVarIdFirstWins(_, _)
buildStockByVarIdFirstWins(counts, map) ==
    IF counts = <<>> THEN map
    ELSE LET c == Head(counts)
         IN  buildStockByVarIdFirstWins(Tail(counts),
                 IF c.catalog_object_id \in DOMAIN map THEN map
                 ELSE mapSet(map, c.catalog_object_id, quantityToStock(c.quantity)))

\* the loop over the counts: variation id -> rendered quantity
RECURSIVE buildStockByVarId(_, _)
buildStockByVarId(counts, map) ==
    IF counts = <<>> THEN map
    ELSE LET c == Head(counts)
         IN  buildStockByVarId(Tail(counts),
                 mapSet(map, c.catalog_object_id, quantityToStock(c.quantity)))

\* stockByVarId.get(u.variationId) ?? "0"
stockOf(stockByVarId, variationId) ==
    IF mapGet(stockByVarId, variationId) = None THEN <<"0">>
    ELSE mapGet(stockByVarId, variationId)[1]

\* the fourteen fields of a data row
rowFields(u, stockByVarId) ==
    << u.sku, u.name, <<>>, guessVintage(u.name), guessUnitSize(u.name), u.price,
       stockOf(stockByVarId, u.variationId), SHOP_SEARCH_BASE \o encodeQuery(u.name),
       <<>>, TAX, OFFER, DELIVERY, <<>>, <<>> >>

EmptyMap == <<>>

feedRows(rowsUsable, counts) ==
    LET stockByVarId == buildStockByVarId(counts, EmptyMap)
    IN  [i \in 1..Len(rowsUsable) |-> rowFields(rowsUsable[i], stockByVarId)]

feedLines(fieldRows) ==
    <<header>> \o [i \in 1..Len(fieldRows) |-> join(fieldRows[i], <<"|">>)]

\* lines.join("\n") + "\n"
fileContent(ls) == join(ls, <<"\n">>) \o <<"\n">>

(***************************************************************************)
(* State and steps of a run.  A step is what runs between two awaits: the  *)
(* module body up to the first fetch, the continuation of main() after     *)
(* the catalog call, and the continuation after the inventory call.        *)
(***************************************************************************)
pipelineVars ==
    <<pc, TOKEN, LOCATION_ID, events, catOutcome, invOutcome, cat, usable, invRequest, inv,
      rows, lines, file, exitCode>>

deriverVars == <<name, vintage, unitSize>>

vars ==
    <<pc, TOKEN, LOCATION_ID, events, catOutcome, invOutcome, cat, usable, invRequest, inv,
      rows, lines, file, exitCode, name, vintage, unitSize>>

\* a feed file left by an earlier run
OldFile == <<"S", "K", "U", "|", "n", "a", "m", "e", "\n", "O", "L", "D", "|", "O", "l", "d",
       " ", "f", "e", "e", "d", "\n">>

PipelineIdle ==
    /\ pc = "start"
    /\ events = <<>>
    /\ catOutcome = "none"
    /\ invOutcome = "none"
    /\ cat = None
    /\ usable = <<>>
    /\ invRequest = None
    /\ inv = None
    /\ rows = <<>>
    /\ lines = <<>>
    /\ exitCode = None

DeriverIdle ==
    /\ name = <<>>
    /\ vintage = None
    /\ unitSize = None

Init ==
    /\ PipelineIdle
    /\ TOKEN \in {None, Some(""), Some("token")}
    /\ LOCATION_ID \in {None, Some(""), Some("L1")}
    /\ file = Some(OldFile)
    /\ DeriverIdle

\* the module body: the credential check, then main() up to its first await
Start ==
    /\ pc = "start"
    /\ IF CredentialsMissing(TOKEN, LOCATION_ID)
       THEN /\ pc' = "failed"
            /\ events' = <<"credential_check", "end">>
            /\ exitCode' = Some(1)
       ELSE /\ pc' = "await_catalog"
            /\ events' = <<"credential_check", "catalog_request">>
            /\ UNCHANGED exitCode
    /\ UNCHANGED <<TOKEN, LOCATION_ID, catOutcome, invOutcome, cat, usable, invRequest, inv,
                   rows, lines, file>>
    /\ UNCHANGED deriverVars

\* the catalog call throws: main() rejects, the catch handler logs and exits
CatalogFails(outcome) ==
    /\ pc = "await_catalog"
    /\ squareFetchThrows(outcome)
    /\ catOutcome' = outcome
    /\ pc' = "failed"
    /\ events' = events \o <<"catalog_error", "end">>
    /\ exitCode' = Some(1)
    /\ UNCHANGED <<TOKEN, LOCATION_ID, invOutcome, cat, usable, invRequest, inv, rows, lines, file>>
    /\ UNCHANGED deriverVars

\* the catalog call returns: the join, then the inventory request
CatalogReturns(outcome, response) ==
    /\ pc = "await_catalog"
    /\ ~squareFetchThrows(outcome)
    /\ catOutcome' = outcome
    /\ cat' = Some(response)
    /\ LET variations  == OrEmpty(response.objects)
           related     == OrEmpty(response.related_objects)
           itemNameById == buildItemNameById(related, EmptyMap)
           built       == buildUsable(variations, itemNameById)
       IN  /\ usable' = built
           /\ invRequest' = Some(inventoryRequest(built, LOCATION_ID[1]))
    /\ pc' = "await_inventory"
    /\ events' = events \o <<"catalog_response", "inventory_request">>
    /\ UNCHANGED <<TOKEN, LOCATION_ID, invOutcome, inv, rows, lines, file, exitCode>>
    /\ UNCHANGED deriverVars

\* the inventory call throws
InventoryFails(outcome) ==
    /\ pc = "await_inventory"
    /\ squareFetchThrows(outcome)
    /\ invOutcome' = outcome
    /\ pc' = "failed"
    /\ events' = events \o <<"inventory_error", "end">>
    /\ exitCode' = Some(1)
    /\ UNCHANGED <<TOKEN, LOCATION_ID, catOutcome, cat, usable, invRequest, inv, rows, lines, file>>
    /\ UNCHANGED deriverVars

\* the inventory call returns: the stock join, the rows, the file write
InventoryReturns(outcome, response) ==
    /\ pc = "await_inventory"
    /\ ~squareFetchThrows(outcome)
    /\ invOutcome' = outcome
    /\ inv' = Some(response)
    /\ rows' = feedRows(usable, OrEmpty(response.counts))
    /\ lines' = feedLines(rows')
    /\ file' = Some(fileContent(lines'))
    /\ pc' = "done"
    /\ events' = events \o <<"inventory_response", "file_write", "end">>
    /\ exitCode' = Some(0)
    /\ UNCHANGED <<TOKEN, LOCATION_ID, catOutcome, cat, usable, invRequest>>
    /\ UNCHANGED deriverVars

(***************************************************************************)
(* Responses of the remote API: catalogs of at most MaxVariations          *)
(* variations and inventories of at most MaxCounts counts                  *)
(***************************************************************************)
MaxVariations == 2
MaxCounts == 2

Variation(id, sku, itemId, varName, amount) ==
    [id |-> id, sku |-> sku, item_id |-> itemId, name |-> varName, amount |-> amount]

RelatedObject(type, id, itemName) == [type |-> type, id |-> id, name |-> itemName]

Count(id, quantity) == [catalog_object_id |-> id, quantity |-> quantity]

SeqsUpTo(S, n) == UNION { [1..k -> S] : k \in 0..n }

VariationPool ==
    { Variation("V1", Some(<<"A", "B", "C", "1", "2", "3">>), "I1", Some(<<"R", "e", "g", "u", "l", "a", "r">>), Some(2500)),
      Variation("V2", None, "I1", Some(<<"M", "a", "g", "n", "u", "m">>), Some(4599)),
      Variation("V3", Some(<<"A", "|", "B">>), "I2", None, None),
      Variation("V2", Some(<<"A", "B", "C", "1", "2", "3">>), "I9", Some(<<"1", ".", "5", "L">>), Some(0)),
      Variation("V4", Some(<<>>), "I1", Some(<<"3", "7", "5", "m", "l">>), Some(5)) }

RelatedPool ==
    { None,
      Some(<< RelatedObject("ITEM", "I1", Some(<<"C", "h", "a", "t", "e", "a", "u", " ", "T", "e", "s", "t">>)),
              RelatedObject("ITEM", "I2", Some(<<"B", "a", "r", "o", "l", "o", " ", "2", "0", "1", "5", " ", "|", " ", "R", "i",
       "s", "e", "r", "v", "a">>)) >>),
      Some(<< RelatedObject("ITEM", "I1", Some(<<"O", "l", "d", " ", "n", "a", "m", "e">>)),
              RelatedObject("ITEM", "I1", Some(<<" ">>)),
              RelatedObject("CATEGORY", "I2", Some(<<"W", "i", "n", "e">>)),
              RelatedObject("ITEM", "I2", Some(<<"G", "i", "f", "t", "\n", "S", "e", "t", " ", "2", "0", "1", "9">>)) >>) }

CatalogResponses ==
    { [objects |-> objs, related_objects |-> rel] :
          objs \in {None} \cup { Some(vs) : vs \in SeqsUpTo(VariationPool, MaxVariations) },
          rel \in RelatedPool }

CountPool ==
    { Count("V1", Some(<<"7">>)),
      Count("V1", Some(<<"0">>)),
      Count("V2", None),
      Count("V3", Some(<<"-", "3">>)),
      Count("V2", Some(<<"1", ".", "5">>)) }

InventoryResponses ==
    { [counts |-> cs] : cs \in {None} \cup { Some(s) : s \in SeqsUpTo(CountPool, MaxCounts) } }

Next ==
    \/ Start
    \/ \E outcome \in FetchOutcomes : CatalogFails(outcome)
    \/ \E outcome \in FetchOutcomes, response \in CatalogResponses :
           CatalogReturns(outcome, response)
    \/ \E outcome \in FetchOutcomes : InventoryFails(outcome)
    \/ \E outcome \in FetchOutcomes, response \in InventoryResponses :
           InventoryReturns(outcome, response)

Spec == Init /\ [][Next]_vars

(***************************************************************************)
(* The catalog join on its own: catalogs of one variation, over all        *)
(* combinations of SKU, item name and variation name                       *)
(***************************************************************************)
JoinSkus == {None, Some(<<>>), Some(<<"S", "1">>), Some(<<" ">>)}
JoinItemIds == {"I1", "I9"}
JoinItemNames == {None, Some(<<>>), Some(<<" ", " ">>), Some(<<"C", "h", "a", "t", "e", "a", "u", " ", "T", "e", "s", "t">>), Some(<<" ", "B", "a", "r", "o", "l", "o", " ">>)}
JoinVarNames ==
    {None, Some(<<>>), Some(<<"R", "e", "g", "u", "l", "a", "r">>), Some(<<"R", "E", "G", "U", "L", "A", "R">>), Some(<<"r", "e", "g", "u", "l", "a", "r", " ">>), Some(<<"M", "a", "g", "n", "u", "m">>),
     Some(<<" ">>), Some(<<" ", "1", ".", "5", "L", " ">>)}

JoinCatalogResponses ==
    { [objects |-> Some(<<Variation("V1", sku, itemId, varName, None)>>),
       related_objects |-> Some(<<RelatedObject("ITEM", "I1", itemName)>>)] :
          sku \in JoinSkus, itemId \in JoinItemIds, itemName \in JoinItemNames,
          varName \in JoinVarNames }

JoinInventoryResponses == { [counts |-> None], [counts |-> Some(<<Count("V1", Some(<<"7">>))>>)] }

InitJoin ==
    /\ PipelineIdle
    /\ TOKEN = Some("token")
    /\ LOCATION_ID \in {None, Some("L1")}
    /\ file = None
    /\ DeriverIdle

NextJoin ==
    \/ Start
    \/ \E outcome \in FetchOutcomes : CatalogFails(outcome)
    \/ \E outcome \in FetchOutcomes, response \in JoinCatalogResponses :
           CatalogReturns(outcome, response)
    \/ \E outcome \in FetchOutcomes : InventoryFails(outcome)
    \/ \E outcome \in FetchOutcomes, response \in JoinInventoryResponses :
           InventoryReturns(outcome, response)

SpecJoin == InitJoin /\ [][NextJoin]_vars

(***************************************************************************)
(* The field derivers on their own: names are concatenations of at most    *)
(* MaxFragments fragments                                                  *)
(***************************************************************************)
MaxFragments == 3

NameFragments ==
    { <<"m", "a", "g", "n", "u", "m">>, <<"M", "a", "g", "n", "u", "m">>, <<"1", ".", "5", "L">>, <<"1", "5", "0", "0">>, <<"3", "7", "5">>, <<"5", "0", "0">>, <<"1", "l">>, <<"1", "0", "0", "0">>, <<"3", "L">>,
      <<"2", "0", "1", "5">>, <<"1", "8", "9", "9">>, <<"2", "1", "0", "0">>, <<"x">>, <<"_">>, <<" ">>, <<"1">> }

RECURSIVE Concat(_)
Concat(ss) == IF ss = <<>> THEN <<>> ELSE Head(ss) \o Concat(Tail(ss))

DeriverNames == { Concat(fs) : fs \in SeqsUpTo(NameFragments, MaxFragments) }

InitDerive ==
    /\ PipelineIdle
    /\ TOKEN = None
    /\ LOCATION_ID = None
    /\ file = None
    /\ name \in DeriverNames
    /\ vintage = None
    /\ unitSize = None

ApplyGuessVintage ==
    /\ vintage = None
    /\ vintage' = Some(guessVintage(name))
    /\ UNCHANGED <<name, unitSize>>
    /\ UNCHANGED pipelineVars

ApplyGuessUnitSize ==
    /\ unitSize = None
    /\ unitSize' = Some(guessUnitSize(name))
    /\ UNCHANGED <<name, vintage>>
    /\ UNCHANGED pipelineVars

NextDerive == ApplyGuessVintage \/ ApplyGuessUnitSize

SpecDerive == InitDerive /\ [][NextDerive]_vars

(***************************************************************************)
(* Operators used to state the properties                                  *)
(***************************************************************************)
Max(S) == CHOOSE x \in S : \A y \in S : x >= y

Positions(s, x) == {i \in 1..Len(s) : s[i] = x}

\* String.prototype.split on a one-character separator
RECURSIVE SplitOn(_, _)
SplitOn(s, ch) ==
    IF Positions(s, ch) = {} THEN <<s>>
    ELSE LET i == CHOOSE p \in Positions(s, ch) : \A q \in Positions(s, ch) : p <= q
         IN  <<SubSeq(s, 1, i - 1)>> \o SplitOn(SubSeq(s, i + 1, Len(s)), ch)

StartsWith(s, prefix) == Len(s) >= Len(prefix) /\ SubSeq(s, 1, Len(prefix)) = prefix

\* s without its leading and trailing white space, by the positions of its
\* first and last characters that are not white space
Inner(s) ==
    LET P == {i \in 1..Len(s) : s[i] \notin {" ", "\t", "\n", "\r"}}
    IN  IF P = {} THEN <<>>
        ELSE SubSeq(s, CHOOSE i \in P : \A j \in P : i <= j, CHOOSE i \in P : \A j \in P : i >= j)

HeaderLiteral ==
    <<"S", "K", "U", "|", "n", "a", "m", "e", "|", "d", "e", "s", "c", "r", "i", "p",
       "t", "i", "o", "n", "|", "v", "i", "n", "t", "a", "g", "e", "|", "u", "n", "i",
       "t", "-", "s", "i", "z", "e", "|", "p", "r", "i", "c", "e", "|", "s", "t", "o",
       "c", "k", "|", "u", "r", "l", "|", "m", "i", "n", "-", "o", "r", "d", "e", "r",
       "|", "t", "a", "x", "|", "o", "f", "f", "e", "r", "-", "t", "y", "p", "e", "|",
       "d", "e", "l", "i", "v", "e", "r", "y", "-", "t", "i", "m", "e", "|", "L", "W",
       "I", "N", "|", "i", "m", "a", "g", "e", "u", "r", "l">>

ReceivedVariations == IF cat = None THEN <<>> ELSE OrEmpty(cat[1].objects)
ReceivedCounts == IF inv = None THEN <<>> ELSE OrEmpty(inv[1].counts)

HasSku(v) == v.sku # None /\ v.sku[1] # <<>>

Failed(outcome) == outcome \in {"http_error", "network_error", "invalid_json"}

Occurrences(e) == Cardinality(Positions(events, e))

(***************************************************************************)
(* C1: all-or-nothing output.  The file is written only if both the        *)
(* catalog call and the inventory call returned successfully; if either    *)
(* call fails (status not a success, fetch or parse error) the file is     *)
(* never written in that run (it keeps its content), no request is         *)
(* repeated, and the run ends failed with exit status 1.                   *)
(***************************************************************************)
C1_AllOrNothing ==
    /\ ("file_write" \in Range(events) \/ file # Some(OldFile))
           => (catOutcome = "ok" /\ invOutcome = "ok")
    /\ (Failed(catOutcome) \/ Failed(invOutcome))
           => /\ pc = "failed"
              /\ exitCode = Some(1)
              /\ file = Some(OldFile)
              /\ "file_write" \notin Range(events)
              /\ events[Len(events)] = "end"
              /\ ~ENABLED Next
    /\ Occurrences("catalog_request") <= 1
    /\ Occurrences("inventory_request") <= 1
    /\ Failed(catOutcome) => Occurrences("inventory_request") = 0

\* the catalog call succeeded, the inventory call answered with an error status
C1_Witness ==
    /\ catOutcome = "ok"
    /\ invOutcome = "http_error"
    /\ pc = "failed"
    /\ file = Some(OldFile)

(***************************************************************************)
(* C2: the written file is the header literal, then one data row per       *)
(* variation that carries a non-empty SKU, in the order of the variation   *)
(* list, each line followed by a newline.  Variations without a SKU give   *)
(* no row, every row has a non-empty SKU, variations sharing a SKU each    *)
(* give their own row, and with no usable variation the file is the        *)
(* header and a newline.                                                   *)
(***************************************************************************)
C2_FileLayout ==
    pc = "done" =>
        LET withSku == SelectSeq(ReceivedVariations, HasSku)
        IN  /\ Len(lines) = 1 + Len(withSku)
            /\ lines[1] = HeaderLiteral
            /\ Len(usable) = Len(withSku)
            /\ \A k \in 1..Len(withSku) :
                   /\ usable[k].sku = withSku[k].sku[1]
                   /\ usable[k].variationId = withSku[k].id
                   /\ usable[k].sku # <<>>
                   /\ StartsWith(lines[k + 1], usable[k].sku \o <<"|">>)
            /\ file = Some(Concat([i \in 1..Len(lines) |-> lines[i] \o <<"\n">>]))
            /\ withSku = <<>> => file = Some(HeaderLiteral \o <<"\n">>)

\* two variations with the same SKU were each given a row
C2_Witness ==
    /\ pc = "done"
    /\ Len(ReceivedVariations) = 2
    /\ Len(lines) = 3
    /\ usable[1].sku = usable[2].sku
    /\ usable[1].variationId # usable[2].variationId

\* the name of the item a variation refers to: the last related object of
\* type ITEM with that id, the empty string when there is none
ItemNameOf(v) ==
    LET rel == OrEmpty(cat[1].related_objects)
        M   == {i \in 1..Len(rel) : rel[i].type = "ITEM" /\ rel[i].id = v.item_id}
    IN  IF M = {} THEN <<>> ELSE OrEmpty(rel[Max(M)].name)

Qualifies(varName) == varName # <<>> /\ toLowerCase(varName) # <<"r", "e", "g", "u", "l", "a", "r">>

OrSku(composed, sku) == IF composed # <<>> THEN composed ELSE sku

(***************************************************************************)
(* C3 as stated: the name of a usable row is never empty; it is the        *)
(* trimmed item name concatenated with the variation name when the         *)
(* variation name is present and not case-insensitively equal to           *)
(* "regular", otherwise the trimmed item name alone, and the SKU when      *)
(* that composed name is empty.  The concatenation is read with or         *)
(* without a separating space, and with or without a final trim.           *)
(***************************************************************************)
C3_NameAsStated ==
    cat # None =>
        LET withSku == SelectSeq(ReceivedVariations, HasSku)
        IN  \A k \in 1..Len(usable) :
                LET item == ItemNameOf(withSku[k])
                    var  == OrEmpty(withSku[k].name)
                    sku  == withSku[k].sku[1]
                IN  /\ usable[k].name # <<>>
                    /\ Qualifies(var) =>
                           usable[k].name \in
                               { OrSku(Inner(item) \o var, sku),
                                 OrSku(Inner(item) \o <<" ">> \o var, sku),
                                 OrSku(Inner(Inner(item) \o <<" ">> \o var), sku) }
                    /\ ~Qualifies(var) => usable[k].name = OrSku(Inner(item), sku)

(***************************************************************************)
(* C3 amended: the name of a usable row is never empty; it is the item     *)
(* name, one space and the variation name concatenated and then trimmed    *)
(* as a whole when the variation name is present and not                   *)
(* case-insensitively equal to "regular", otherwise the trimmed item name  *)
(* alone, and the SKU when that composed name is empty.                    *)
(***************************************************************************)
C3_NameNeverEmpty ==
    cat # None =>
        LET withSku == SelectSeq(ReceivedVariations, HasSku)
        IN  \A k \in 1..Len(usable) :
                LET item == ItemNameOf(withSku[k])
                    var  == OrEmpty(withSku[k].name)
                    sku  == withSku[k].sku[1]
                IN  /\ usable[k].name # <<>>
                    /\ Qualifies(var) =>
                           usable[k].name = OrSku(Inner(item \o <<" ">> \o var), sku)
                    /\ ~Qualifies(var) => usable[k].name = OrSku(Inner(item), sku)

\* a blank item name and the variation name "Regular": the name is the SKU
C3_Witness ==
    /\ cat # None
    /\ Len(usable) = 1
    /\ ItemNameOf(ReceivedVariations[1]) = <<" ", " ">>
    /\ ReceivedVariations[1].name = Some(<<"R", "e", "g", "u", "l", "a", "r">>)
    /\ usable[1].name = usable[1].sku

(***************************************************************************)
(* C4: the stock field of every data row is the decimal string of a        *)
(* non-negative integer (never blank, never negative, never fractional),   *)
(* whatever the quantities of the inventory response.                      *)
(***************************************************************************)
C4_StockNonNegativeInteger ==
    \A k \in 1..Len(rows) :
        /\ rows[k][7] # <<>>
        /\ \A i \in 1..Len(rows[k][7]) : rows[k][7][i] \in Range(DigitChars)

(***************************************************************************)
(* C5: the stock of a row is the rendered quantity of the count whose      *)
(* catalog_object_id is the row's variation id (the last such count when   *)
(* several are returned); a row without a matching count gets "0", a       *)
(* matching count of quantity 0 gives "0", and counts for other            *)
(* identifiers do not affect the row.                                      *)
(***************************************************************************)
C5_StockJoin ==
    pc = "done" =>
        /\ Len(rows) = Len(usable)
        /\ \A k \in 1..Len(usable) :
               LET M == {i \in 1..Len(ReceivedCounts) :
                             ReceivedCounts[i].catalog_object_id = usable[k].variationId}
               IN  /\ M = {} => rows[k][7] = <<"0">>
                   /\ M # {} => rows[k][7] = quantityToStock(ReceivedCounts[Max(M)].quantity)
                   /\ (M # {} /\ ReceivedCounts[Max(M)].quantity = Some(<<"0">>))
                          => rows[k][7] = <<"0">>

\* counts were returned, none of them for this row, and its stock is "0"
C5_Witness ==
    /\ pc = "done"
    /\ Len(ReceivedCounts) = 2
    /\ \E k \in 1..Len(usable) :
           /\ \A i \in 1..Len(ReceivedCounts) :
                  ReceivedCounts[i].catalog_object_id # usable[k].variationId
           /\ rows[k][7] = <<"0">>
    /\ \E k \in 1..Len(usable) : rows[k][7] = <<"7">>

(***************************************************************************)
(* The end-to-end scenario: one variation with SKU ABC123 of the item      *)
(* "Chateau Test", variation name "Regular", price 2500, and one           *)
(* inventory count of 7 for it.                                            *)
(***************************************************************************)
C6_Scenario ==
    /\ pc = "done"
    /\ ReceivedVariations =
           <<Variation("V1", Some(<<"A", "B", "C", "1", "2", "3">>), "I1", Some(<<"R", "e", "g", "u", "l", "a", "r">>), Some(2500))>>
    /\ \E i \in 1..Len(OrEmpty(cat[1].related_objects)) :
           OrEmpty(cat[1].related_objects)[i] = RelatedObject("ITEM", "I1", Some(<<"C", "h", "a", "t", "e", "a", "u", " ", "T", "e", "s", "t">>))
    /\ ReceivedCounts = <<Count("V1", Some(<<"7">>))>>

C6_RowAsStated ==
    <<"A", "B", "C", "1", "2", "3", "|", "C", "h", "a", "t", "e", "a", "u", " ", "T",
       "e", "s", "t", "|", "|", "|", "N", "V", "|", "7", "5", "0", "m", "l", "|", "2",
       "5", ".", "0", "0", "|", "7", "|", "h", "t", "t", "p", "s", ":", "/", "/", "w",
       "w", "w", ".", "m", "a", "g", "a", "z", "z", "i", "n", "o", "n", "y", "c", ".",
       "c", "o", "m", "/", "s", "/", "s", "h", "o", "p", "?", "q", "u", "e", "r", "y",
       "=", "C", "h", "a", "t", "e", "a", "u", "%", "2", "0", "T", "e", "s", "t", "|",
       "|", "I", "n", "c", ".", "t", "a", "x", "|", "R", "|", "N", "e", "x", "t", " ",
       "d", "a", "y", "|", "|">>

C6_Row ==
    <<"A", "B", "C", "1", "2", "3", "|", "C", "h", "a", "t", "e", "a", "u", " ", "T",
       "e", "s", "t", "|", "|", "N", "V", "|", "7", "5", "0", "m", "l", "|", "2", "5",
       ".", "0", "0", "|", "7", "|", "h", "t", "t", "p", "s", ":", "/", "/", "w", "w",
       "w", ".", "m", "a", "g", "a", "z", "z", "i", "n", "o", "n", "y", "c", ".", "c",
       "o", "m", "/", "s", "/", "s", "h", "o", "p", "?", "q", "u", "e", "r", "y", "=",
       "C", "h", "a", "t", "e", "a", "u", "%", "2", "0", "T", "e", "s", "t", "|", "|",
       "I", "n", "c", ".", "t", "a", "x", "|", "R", "|", "N", "e", "x", "t", " ", "d",
       "a", "y", "|", "|">>

\* C6 as stated: in the scenario the file holds exactly one data row,
\* ABC123|Chateau Test|||NV|750ml|25.00|7|<search-url>||Inc.tax|R|Next day||
C6_ScenarioRowAsStated ==
    C6_Scenario =>
        /\ Len(lines) = 2
        /\ lines[2] = C6_RowAsStated

\* C6 amended: in the scenario the file holds exactly one data row,
\* ABC123|Chateau Test||NV|750ml|25.00|7|<search-url>||Inc.tax|R|Next day||
\* (one empty description field between the name and the vintage), where
\* <search-url> is the base URL followed by the percent-encoded name.
C6_ScenarioRow ==
    C6_Scenario =>
        /\ Len(lines) = 2
        /\ lines[2] = C6_Row
        /\ file = Some(HeaderLiteral \o <<"\n">> \o lines[2] \o <<"\n">>)

\* the scenario was run to its end and the row written
C6_Witness ==
    /\ C6_Scenario
    /\ exitCode = Some(0)
    /\ lines[2] = C6_Row

(***************************************************************************)
(* C7: every data row is one line and splits on the pipe character into    *)
(* exactly fourteen fields in the header's column order: SKU, name, empty  *)
(* description, vintage, unit-size, price, stock, url, empty min-order,    *)
(* "Inc.tax", "R", "Next day", empty LWIN, empty imageurl.                 *)
(***************************************************************************)
C7_OneLineFourteenFields ==
    pc = "done" =>
        \A k \in 1..Len(usable) :
            LET f == SplitOn(lines[k + 1], "|")
            IN  /\ "\n" \notin Range(lines[k + 1])
                /\ Len(f) = 14
                /\ f[1] = usable[k].sku
                /\ f[2] = usable[k].name
                /\ f[3] = <<>>
                /\ f[4] = rows[k][4]
                /\ f[5] = rows[k][5]
                /\ f[6] = usable[k].price
                /\ f[7] = rows[k][7]
                /\ f[8] = rows[k][8]
                /\ f[9] = <<>>
                /\ f[10] = <<"I", "n", "c", ".", "t", "a", "x">>
                /\ f[11] = <<"R">>
                /\ f[12] = <<"N", "e", "x", "t", " ", "d", "a", "y">>
                /\ f[13] = <<>>
                /\ f[14] = <<>>

EventRank(e) ==
    CASE e = "credential_check" -> 1
      [] e = "catalog_request" -> 2
      [] e \in {"catalog_response", "catalog_error"} -> 3
      [] e = "inventory_request" -> 4
      [] e \in {"inventory_response", "inventory_error"} -> 5
      [] e = "file_write" -> 6
      [] e = "end" -> 7

Absent(credential) == credential = None \/ credential[1] = ""

(***************************************************************************)
(* C10: the events of a run occur only in the order credential check,      *)
(* catalog request, catalog answer, inventory request, inventory answer,   *)
(* file write, end, each at most once.  With a credential absent the run   *)
(* ends without a request or a write.  When the catalog call succeeds      *)
(* exactly one inventory request is issued, for the usable rows'           *)
(* variation ids and the one location, also when there is no usable row.   *)
(***************************************************************************)
C10_StrictOrder ==
    /\ \A i \in 1..Len(events) : \A j \in 1..Len(events) :
           i < j => EventRank(events[i]) < EventRank(events[j])
    /\ events # <<>> => events[1] = "credential_check"
    /\ "inventory_request" \in Range(events) => "catalog_response" \in Range(events)
    /\ "file_write" \in Range(events) => "inventory_response" \in Range(events)
    /\ (Absent(TOKEN) \/ Absent(LOCATION_ID))
           => /\ Range(events) \subseteq {"credential_check", "end"}
              /\ file = Some(OldFile)
              /\ invRequest = None
              /\ pc \in {"start", "failed"}
    /\ catOutcome = "ok"
           => /\ Occurrences("inventory_request") = 1
              /\ invRequest # None
              /\ invRequest[1].catalog_object_ids = [k \in 1..Len(usable) |-> usable[k].variationId]
              /\ invRequest[1].location_ids = <<LOCATION_ID[1]>>

\* a complete run without a usable row: the inventory request listed no identifier
C10_Witness ==
    /\ pc = "done"
    /\ usable = <<>>
    /\ invRequest[1].catalog_object_ids = <<>>
    /\ events = <<"credential_check", "catalog_request", "catalog_response",
                  "inventory_request", "inventory_response", "file_write", "end">>

HasCue(n, cues) == \E c \in cues : includes(toLowerCase(n), c)

CuesMagnum == {<<"m", "a", "g", "n", "u", "m">>, <<"1", ".", "5", "l">>, <<"1", "5", "0", "0">>}
Cues375 == {<<"3", "7", "5">>}
Cues500 == {<<"5", "0", "0">>}
Cues1L == {<<"1", "l">>, <<"1", "0", "0", "0">>}
Cues3L == {<<"3", "l">>}

(***************************************************************************)
(* C8: unit-size inference is first-match-wins over the fixed priority     *)
(* order on the lower-cased name (magnum / 1.5l / 1500, then 375, then     *)
(* 500, then 1l / 1000, then 3l, else 750ml); the result is always one of  *)
(* the six labels, and a name matching several rules gets the label of     *)
(* the earliest rule.                                                      *)
(***************************************************************************)
C8_UnitSizeFirstMatchWins ==
    unitSize # None =>
        LET u == unitSize[1]
        IN  /\ u \in SizeLabels
            /\ HasCue(name, CuesMagnum) => u = SizeMagnum
            /\ (~HasCue(name, CuesMagnum) /\ HasCue(name, Cues375)) => u = Size375
            /\ (~HasCue(name, CuesMagnum \cup Cues375) /\ HasCue(name, Cues500)) => u = Size500
            /\ (~HasCue(name, CuesMagnum \cup Cues375 \cup Cues500) /\ HasCue(name, Cues1L))
                   => u = Size1L
            /\ (~HasCue(name, CuesMagnum \cup Cues375 \cup Cues500 \cup Cues1L)
                    /\ HasCue(name, Cues3L)) => u = Size3L
            /\ ~HasCue(name, CuesMagnum \cup Cues375 \cup Cues500 \cup Cues1L \cup Cues3L)
                   => u = Size750

\* a name matching the magnum rule (in upper case) and the 375 rule was sized as a magnum
C8_Witness ==
    /\ unitSize = Some(SizeMagnum)
    /\ includes(name, <<"M", "a", "g", "n", "u", "m">>)
    /\ HasCue(name, Cues375)

IsYearAt(s, i) ==
    /\ i >= 1
    /\ i + 3 <= Len(s)
    /\ <<s[i], s[i + 1]>> \in CenturyPrefixes
    /\ IsDigit(s[i + 2])
    /\ IsDigit(s[i + 3])

YearPositions(s) == {i \in 1..Len(s) : IsYearAt(s, i)}

Min(S) == CHOOSE x \in S : \A y \in S : x <= y

(***************************************************************************)
(* C9 as stated: the vintage is the leftmost four-digit run starting with  *)
(* 18, 19 or 20 found anywhere in the name (also directly next to letters, *)
(* underscores or further digits), and "NV" exactly when there is none.    *)
(***************************************************************************)
C9_VintageAnywhere ==
    vintage # None =>
        LET P == YearPositions(name)
        IN  vintage[1] = IF P = {} THEN NV ELSE SubSeq(name, Min(P), Min(P) + 3)

StandsAlone(s, i) ==
    /\ i = 1 \/ ~IsWordChar(s[i - 1])
    /\ i + 3 = Len(s) \/ ~IsWordChar(s[i + 4])

WordYearPositions(s) == {i \in YearPositions(s) : StandsAlone(s, i)}

(***************************************************************************)
(* C9 amended: the vintage is the leftmost four-digit run starting with    *)
(* 18, 19 or 20 that stands alone as a word, i.e. is neither preceded nor  *)
(* followed by a letter, a digit or an underscore, and "NV" exactly when   *)
(* the name holds no such run; the result is "NV" or four digits that      *)
(* occur in the name.                                                      *)
(***************************************************************************)
C9_VintageWordBounded ==
    vintage # None =>
        LET P == WordYearPositions(name)
            v == vintage[1]
        IN  /\ v = IF P = {} THEN NV ELSE SubSeq(name, Min(P), Min(P) + 3)
            /\ v = NV \/ (Len(v) = 4 /\ (\A k \in 1..4 : IsDigit(v[k])) /\ includes(name, v))

\* a year glued to a letter or an underscore was passed over
C9_Witness ==
    /\ vintage = Some(NV)
    /\ YearPositions(name) # {}
    /\ \E i \in YearPositions(name) : i > 1 /\ name[i - 1] \in {"x", "_"}

=============================================================================
